---- MODULE Spec2Model ----
(***************************************************************************)
(* Model of the two notebooks of the Computational Physics Portfolio:      *)
(*   Electric_Rad_Project.ipynb   - Erad(numTheta, numPhi)                  *)
(*   Double_Pendulum_Project.ipynb - dpendulum, pcalc, scenario cells       *)
(*                                                                         *)
(* Python floats are IEEE-754 binary64.  Where rounding decides control    *)
(* flow or a stored value (the angle loops of Erad, the running time of    *)
(* pcalc) the model computes with binary64 exactly: a float is a signed    *)
(* integer count of a fixed power-of-two unit, kept as limbs because the   *)
(* counts need up to 115 bits, and every sum or quotient is rounded to 53  *)
(* significant bits, ties to even.                                         *)
(***************************************************************************)
EXTENDS Integers, Sequences, FiniteSets, TLC

\* ------------------------------------------------------------------------
\* binary64 arithmetic on limbs
\* ------------------------------------------------------------------------

\* limb base and count: a magnitude is <<l1, .., l8>>, value = SUM l_i * Base^(i-1)
Base == 2^15
NLimbs == 2 * 4

MagZero == [i \in 1..NLimbs |-> 0]

RECURSIVE MagAddFrom(_, _, _, _)
MagAddFrom(a, b, i, carry) ==
  IF i > NLimbs THEN <<>>
  ELSE LET s == a[i] + b[i] + carry
       IN <<s % Base>> \o MagAddFrom(a, b, i + 1, s \div Base)

MagAdd(a, b) == MagAddFrom(a, b, 1, 0)

\* a - b for a >= b
RECURSIVE MagSubFrom(_, _, _, _)
MagSubFrom(a, b, i, borrow) ==
  IF i > NLimbs THEN <<>>
  ELSE LET d == a[i] - b[i] - borrow
       IN IF d < 0 THEN <<d + Base>> \o MagSubFrom(a, b, i + 1, 1)
                   ELSE <<d>> \o MagSubFrom(a, b, i + 1, 0)

MagSub(a, b) == MagSubFrom(a, b, 1, 0)

\* -1, 0, 1 as a < b, a = b, a > b
RECURSIVE MagCmpAt(_, _, _)
MagCmpAt(a, b, i) ==
  IF i = 0 THEN 0
  ELSE IF a[i] > b[i] THEN 1
  ELSE IF a[i] < b[i] THEN -1
  ELSE MagCmpAt(a, b, i - 1)

MagCmp(a, b) == MagCmpAt(a, b, NLimbs)

RECURSIVE BitLenLimb(_)
BitLenLimb(x) == IF x = 0 THEN 0 ELSE 1 + BitLenLimb(x \div 2)

RECURSIVE TopLimbAt(_, _)
TopLimbAt(a, i) == IF i = 0 THEN 0 ELSE IF a[i] # 0 THEN i ELSE TopLimbAt(a, i - 1)

\* number of significant bits of a magnitude
BitLen(a) ==
  LET top == TopLimbAt(a, NLimbs)
  IN IF top = 0 THEN 0 ELSE (top - 1) * 15 + BitLenLimb(a[top])

MagUnit(p) == [i \in 1..NLimbs |-> IF i = 1 THEN p ELSE 0]

\* the binary64 significand has 53 bits (52 stored)
RoundShift(a) == BitLen(a) - (52 + 1)

\* 2^b as a magnitude
MagPow2(b) == [i \in 1..NLimbs |-> IF i = (b \div 15) + 1 THEN 2^(b % 15) ELSE 0]

\* the lowest b bits of a magnitude
MagLow(a, b) ==
  [i \in 1..NLimbs |-> IF i <= b \div 15 THEN a[i]
                       ELSE IF i = (b \div 15) + 1 THEN a[i] % 2^(b % 15)
                       ELSE 0]

\* bit b of a magnitude (bit 0 is the lowest)
MagBit(a, b) == (a[(b \div 15) + 1] \div 2^(b % 15)) % 2

\* a \div 2^b
MagShiftRight(a, b) ==
  LET q == b \div 15
      r == b % 15
  IN [i \in 1..NLimbs |->
        (IF i + q <= NLimbs THEN a[i + q] \div 2^r ELSE 0)
        + (IF i + q + 1 <= NLimbs THEN (a[i + q + 1] % 2^r) * 2^(15 - r) ELSE 0)]

\* round a magnitude to 53 significant bits, ties to even; sticky: a nonzero
\* fraction below the unit was dropped (after a division)
RoundMag(a, sticky) ==
  LET sh == RoundShift(a)
  IN IF sh <= 0 THEN a
     ELSE LET low   == MagLow(a, sh)
              cmp   == MagCmp(low, MagPow2(sh - 1))
              odd   == MagBit(a, sh) = 1
              trunc == MagSub(a, low)
              up    == cmp > 0 \/ (cmp = 0 /\ (sticky \/ odd))
          IN IF up THEN MagAdd(trunc, MagPow2(sh)) ELSE trunc

\* a float: sign and magnitude (zero is never negative here)
Float(neg, mag) == [neg |-> neg /\ mag # MagZero, mag |-> mag]

FZero == Float(FALSE, MagZero)

FNeg(x) == Float(~x.neg, x.mag)

\* the exact signed sum of two floats, before rounding
ExactAdd(x, y) ==
  IF x.neg = y.neg THEN Float(x.neg, MagAdd(x.mag, y.mag))
  ELSE IF MagCmp(x.mag, y.mag) >= 0 THEN Float(x.neg, MagSub(x.mag, y.mag))
  ELSE Float(y.neg, MagSub(y.mag, x.mag))

\* Python x + y on floats
FAdd(x, y) == LET s == ExactAdd(x, y) IN Float(s.neg, RoundMag(s.mag, FALSE))

\* Python x < y on floats
FLess(x, y) ==
  IF x.neg # y.neg THEN x.neg
  ELSE IF x.neg THEN MagCmp(x.mag, y.mag) > 0
  ELSE MagCmp(x.mag, y.mag) < 0

Abs(n) == IF n < 0 THEN -n ELSE n

\* long division of a magnitude by a small positive integer
RECURSIVE DivRemAt(_, _, _)
DivRemAt(a, n, i) ==
  IF i > NLimbs THEN 0 ELSE (DivRemAt(a, n, i + 1) * Base + a[i]) % n

MagDivInt(a, n) ==
  [i \in 1..NLimbs |-> (DivRemAt(a, n, i + 1) * Base + a[i]) \div n]

\* Python x / n for a float x and a nonzero int n (n converts exactly)
FDivInt(x, n) ==
  Float(x.neg # (n < 0),
        RoundMag(MagDivInt(x.mag, Abs(n)), DivRemAt(x.mag, Abs(n), 1) # 0))

\* Python x / 2**e for a float x (2**e converts exactly for e < 1024)
FDivPow2(x, e) ==
  Float(x.neg, RoundMag(MagShiftRight(x.mag, e), MagLow(x.mag, e) # MagZero))

\* ------------------------------------------------------------------------
\* Electric_Rad_Project.ipynb: constants of Erad
\* ------------------------------------------------------------------------

\* math.pi = 0x1.921fb54442d18p+1, in units of 2^-111
Pi == Float(FALSE, <<0, 0, 0, 0, 11544, 10376, 2029, 201>>)

\* np.pi/2 and 2*np.pi (both exact: a change of exponent)
HalfPi == FDivInt(Pi, 2)
TwoPi == FAdd(Pi, Pi)

\* N = 30: observation points on one ray
N == 30

\* Radii are counted in units of x/N, x = A*5*10**11 the first radius:
\* L = 2*x and dx = L/N make the step 2 units and the start N units.
RadialStep == 2
RadialStart == N

\* Nsteps = 1000 simulated instants, scaled down; t = np.arange(0, Nsteps*h, h)
\* holds t[i] = i*h, so an instant is its index i, in units of h
NstepsErad == 3

\* the argument values tried: numTheta in -1..MaxNumTheta, numPhi in -1..MaxNumPhi
MaxNumTheta == 3
MaxNumPhi == 6

\* a loop that cannot end (negative counts) is followed for this many rounds
\* the pairs evaluated in any order: the first ParPoints points, every step
ParPoints == 2
MaxParCount == 2
\* exponents e of the counts numTheta = 2**e beyond 32 bits
BigExps == {55, 60}
MaxRows == MaxNumTheta + 2
MaxCols == MaxNumPhi + 2

\* ------------------------------------------------------------------------
\* Electric_Rad_Project.ipynb: helpers of Erad
\* ------------------------------------------------------------------------

\* x*vec(cos(phi)*cos(theta), sin(theta), sin(phi)*cos(theta)): the point is
\* kept by the three numbers that determine it
ObsPoint(th, ph, x) == [theta |-> th, phi |-> ph, x |-> x]

\* mag(r): the direction vector has length 1, so |r| is the radius x
Mag(r) == r.x

\* for n in range(0,N): robs.append(x*vec(..)); x = x + dx, from x = A*5*10**11
RECURSIVE RayFrom(_, _, _, _)
RayFrom(th, ph, x, n) ==
  IF n = N THEN <<>>
  ELSE <<ObsPoint(th, ph, x)>> \o RayFrom(th, ph, x + RadialStep, n + 1)

Ray(th, ph) == RayFrom(th, ph, RadialStart, 0)

\* a source time: steps*h + travel*(x/N)/c seconds.  (x/N)/c is 1.2e-8 s and
\* the whole run lasts Nsteps*h = 1e-15 s, so the travel part decides the order.
SourceTime(steps, travel) == [steps |-> steps, travel |-> travel]

TimeLess(a, b) ==
  a.travel < b.travel \/ (a.travel = b.travel /\ a.steps < b.steps)

\* the argument of the cosine over omega: t[i] + (mag(r)/c)
PhaseTime(r, i) == SourceTime(i, Mag(r))

\* Efield = oofpez*q/(c**2*mag(r)) * (dot(Avec,hat(r))*hat(r) - Avec)
\*          * np.cos(omega*(t[i] + (mag(r)/c))) * 13**6
\* a function of the point and of the phase time alone
Efield(r, i) == [r |-> r, srcTime |-> PhaseTime(r, i)]

\* Efields = []; for i in range(0,Nsteps): Efields.append(Efield)
RECURSIVE EfieldsFrom(_, _, _)
EfieldsFrom(acc, r, i) ==
  IF i = NstepsErad THEN acc
  ELSE EfieldsFrom(Append(acc, Efield(r, i)), r, i + 1)

\* faulty variant of the row: for i in range(1,Nsteps)
EfieldsSkipFirst(r) == EfieldsFrom(<<>>, r, 1)

Efields(r) == EfieldsFrom(<<>>, r, 0)

\* faulty variant of the row's start: the list of the previous point is kept
RowCarried(table) == IF table = <<>> THEN <<>> ELSE table[Len(table)]

\* line 181: Efields = [] starts the row of every point afresh
RowStart(table) == <<>>

\* arrow(pos = r, axis = Erad[n][0], color=color.yellow)
Arrow(r, axis) == [pos |-> r, axis |-> axis]

\* faulty variant of the frame update: the axes lag one step behind
SetAxesStale(arrows, table, i) ==
  [k \in 1..Len(arrows) |-> [arrows[k] EXCEPT !.axis = table[k][i]]]

\* radiation[n].axis = Erad[n][i] for every n in range(0,RadNum)
SetAxes(arrows, table, i) ==
  [k \in 1..Len(arrows) |-> [arrows[k] EXCEPT !.axis = table[k][i + 1]]]

\* ------------------------------------------------------------------------
\* Double_Pendulum_Project.ipynb: values
\* ------------------------------------------------------------------------

\* h = 1e-4 = 0x1.a36e2eb1c432dp-14, in units of 2^-66
H == Float(FALSE, <<17197, 22072, 23435, 209, 0, 0, 0, 0>>)

\* Nsteps = int(10/h) = 100000, scaled down: the step counts tried are 1..MaxNsteps
MaxNsteps == 5

\* g = 9.8, times 5 to stay in the integers
G5 == 49

\* the (L1, L2, m1, m2) of the four scenario cells
Scenarios ==
  << [L1 |-> 4, L2 |-> 4, m1 |-> 8, m2 |-> 2],
     [L1 |-> 4, L2 |-> 4, m1 |-> 2, m2 |-> 8],
     [L1 |-> 8, L2 |-> 2, m1 |-> 4, m2 |-> 4],
     [L1 |-> 2, L2 |-> 8, m1 |-> 4, m2 |-> 4] >>

\* A number of the pendulum is one of
\*   [qt |-> k]            the angle k*pi/2
\*   [num |-> n, den |-> d] the rational n/d, d > 0, in lowest terms
\*   [of |-> s, idx |-> j]  component j of a state s that has no closed form
\* and a state or derivative is [comps |-> <<c0, c1, c2, c3>>] when its four
\* numbers are known, or the record of the call that produced it.
QuarterTurns(k) == [qt |-> k]

RECURSIVE Gcd(_, _)
Gcd(a, b) == IF b = 0 THEN a ELSE Gcd(b, a % b)

Rat(n, d) ==
  LET g == Gcd(Abs(n), Abs(d))
      s == IF d < 0 THEN -1 ELSE 1
  IN [num |-> (s * n) \div g, den |-> (s * d) \div g]

Known(c0, c1, c2, c3) == [comps |-> <<c0, c1, c2, c3>>]

IsKnown(s) == "comps" \in DOMAIN s

\* data[j]
Item(s, j) == IF IsKnown(s) THEN s.comps[j + 1] ELSE [of |-> s, idx |-> j]

\* np.sin and np.cos at k*pi/2.  (binary64 gives np.cos(np.pi/2) = 6.1e-17
\* where this gives 0: the initial deriv[3] is 0 here and 1e-16 there.)
SinQT(k) == CASE k % 4 = 0 -> 0 [] k % 4 = 1 -> 1 [] k % 4 = 2 -> 0 [] OTHER -> -1
CosQT(k) == SinQT(k + 1)

\* np.zeros(Nsteps), an array indexed from 0
Zeros(ns, zero) == [i \in 0..(ns - 1) |-> zero]

ZeroNum == Rat(0, 1)

\* theta1_0 = np.pi/2, omega1_0 = 0, theta2_0 = 0, omega2_0 = 0
InitialData == Known(QuarterTurns(1), ZeroNum, QuarterTurns(0), ZeroNum)

\* faulty variants of the loop range: range(0,Nsteps) and range(1,Nsteps-1)
FirstIndexZero == 1 - 1
InRangeShort(n, ns) == n < ns - 1

\* faulty variant of the time argument: RK4 is given the incremented time
RK4TimeAfter(tt) == FAdd(tt, H)

\* line 143: ode.RK4 is called with t as it is before line 145 increments it
RK4Time(tt) == tt

\* faulty variant of the array write: a slice write arr[1:i+1] = v
SetItemUpTo(arr, i, v) == [k \in DOMAIN arr |-> IF 1 <= k /\ k <= i THEN v ELSE arr[k]]

\* lines 147-151: arr[n] = v assigns one element of a numpy array in place
SetItem(arr, i, v) == [arr EXCEPT ![i] = v]

\* faulty variant of the loop test: the body runs once before the first test
InRangeAtLeastOnce(n, ns) == n < ns \/ n = 1

\* faulty variant of the time update: t left as it was
NextTimeStale(t) == t

\* for n in range(1,Nsteps): the first index, and whether n is still in range
FirstIndex == 1
InRange(n, ns) == n < ns

\* t = t + h
NextTime(t) == FAdd(t, H)

VARIABLES
  epc,        \* where Erad stands: idle, theta, phi, eval, anim, done, error
  eerr,       \* the exception that ended Erad, or "none"
  numTheta, numPhi,
  dtheta, dphi, theta, phi,
  robs,       \* the observation points, in append order
  rays,       \* history: the number of phi rounds of every theta round so far
  RadNum,
  nE,         \* the point index n of the evaluation loop
  Erad,       \* the field table: Erad[n][i]
  radiation,  \* the arrows
  electron,   \* the index into rsource of the sphere's position, or "none"
  frame,      \* the frame index i of the animation loop
  ptable,     \* the entries (n, i) evaluated out of the loop's order, by <<n, i>>
  numThetaExp \* the argument numTheta of the code is numTheta * 2^numThetaExp:
              \* 0 but for the counts beyond the integers of the model checker

evars == <<epc, eerr, numTheta, numPhi, dtheta, dphi, theta, phi, robs, rays,
           RadNum, nE, Erad, radiation, electron, frame, ptable, numThetaExp>>

VARIABLES
  L1, L2, m1, m2,   \* the notebook's globals (0: not yet assigned)
  th1, om1, th2, om2, time,   \* the globals a scenario cell assigns from pcalc
  ppc,        \* where the pendulum notebook stands: idle, loop, returned, error
  perr,       \* the exception that ended pcalc, or "none"
  args,       \* the arguments pcalc was called with: <<L1, m1, L2, m2>>
  Nsteps, n, t, data,
  tarr, theta1arr, omega1arr, theta2arr, omega2arr,
  writes,     \* history: the indices written so far by this call, in order
  rk4calls,   \* history: the ode.RK4 calls of this call, in order
  dcalls,     \* history: every dpendulum call on a known state, with its result
  shown       \* history: what the animation call made since the last scenario
              \* cell read, if there was such a call

pvars == <<L1, L2, m1, m2, th1, om1, th2, om2, time, ppc, perr, args, Nsteps, n, t,
           data, tarr, theta1arr, omega1arr, theta2arr, omega2arr, writes,
           rk4calls, dcalls, shown>>

vars == <<evars, pvars>>


InitErad ==
  /\ epc = "idle" /\ eerr = "none"
  /\ numTheta = 1 /\ numPhi = 1
  /\ dtheta = FZero /\ dphi = FZero /\ theta = FZero /\ phi = FZero
  /\ robs = <<>> /\ rays = <<>> /\ RadNum = 0 /\ nE = 0
  /\ Erad = <<>> /\ radiation = <<>> /\ electron = "none" /\ frame = 0
  /\ ptable = <<>> /\ numThetaExp = 0

\* lines 112-159: a notebook cell calls Erad(nT, nP); the locals are set up,
\* and pi/numTheta or 2*pi/numPhi raises ZeroDivisionError for a zero count
EradCall(nT, nP) ==
  /\ UNCHANGED pvars
  /\ epc \in {"idle", "done", "error"}
  /\ numTheta' = nT /\ numPhi' = nP
  /\ robs' = <<>> /\ rays' = <<>> /\ Erad' = <<>> /\ radiation' = <<>>
  /\ RadNum' = 0 /\ nE' = 0 /\ electron' = "none" /\ frame' = 0
  /\ ptable' = <<>> /\ numThetaExp' = 0
  /\ theta' = FNeg(HalfPi) /\ phi' = FZero
  /\ IF nT = 0
       THEN /\ epc' = "error" /\ eerr' = "ZeroDivisionError"
            /\ dtheta' = FZero /\ dphi' = FZero
       ELSE IF nP = 0
       THEN /\ epc' = "error" /\ eerr' = "ZeroDivisionError"
            /\ dtheta' = FDivInt(Pi, nT) /\ dphi' = FZero
       ELSE /\ epc' = "theta" /\ eerr' = "none"
            /\ dtheta' = FDivInt(Pi, nT) /\ dphi' = FDivInt(TwoPi, nP)

\* the same set-up for a count numTheta = 2**e, a Python int beyond the
\* integers of the model checker: dtheta = np.pi/2**e
EradCallPow2(e, nP) ==
  /\ UNCHANGED pvars
  /\ epc \in {"idle", "done", "error"}
  /\ numTheta' = 1 /\ numThetaExp' = e /\ numPhi' = nP
  /\ robs' = <<>> /\ rays' = <<>> /\ Erad' = <<>> /\ radiation' = <<>>
  /\ RadNum' = 0 /\ nE' = 0 /\ electron' = "none" /\ frame' = 0
  /\ ptable' = <<>>
  /\ theta' = FNeg(HalfPi) /\ phi' = FZero
  /\ epc' = "theta" /\ eerr' = "none"
  /\ dtheta' = FDivPow2(Pi, e) /\ dphi' = FDivInt(TwoPi, nP)

\* line 162-163: while theta < np.pi/2: phi = 0
ThetaEnter ==
  /\ UNCHANGED <<pvars, ptable, numThetaExp>>
  /\ epc = "theta" /\ FLess(theta, HalfPi) /\ Len(rays) < MaxRows
  /\ phi' = FZero /\ rays' = Append(rays, 0) /\ epc' = "phi"
  /\ UNCHANGED <<eerr, numTheta, numPhi, dtheta, dphi, theta, robs, RadNum, nE,
                 Erad, radiation, electron, frame>>

\* lines 164-169: while phi < 2*np.pi: one ray of N points; phi = phi + dphi
PhiRound ==
  /\ UNCHANGED <<pvars, ptable, numThetaExp>>
  /\ epc = "phi" /\ FLess(phi, TwoPi) /\ rays[Len(rays)] < MaxCols
  /\ robs' = robs \o Ray(theta, phi)
  /\ phi' = FAdd(phi, dphi)
  /\ rays' = [rays EXCEPT ![Len(rays)] = @ + 1]
  /\ UNCHANGED <<epc, eerr, numTheta, numPhi, dtheta, dphi, theta, RadNum, nE,
                 Erad, radiation, electron, frame>>

\* lines 164, 170: the phi loop ends; theta = theta + dtheta
PhiExit ==
  /\ UNCHANGED <<pvars, ptable, numThetaExp>>
  /\ epc = "phi" /\ ~FLess(phi, TwoPi)
  /\ theta' = FAdd(theta, dtheta) /\ epc' = "theta"
  /\ UNCHANGED <<eerr, numTheta, numPhi, dtheta, dphi, phi, robs, rays, RadNum, nE,
                 Erad, radiation, electron, frame>>

\* lines 162, 172-175: the theta loop ends; RadNum = np.size(robs)
ThetaExit ==
  /\ UNCHANGED <<pvars, ptable, numThetaExp>>
  /\ epc = "theta" /\ ~FLess(theta, HalfPi)
  /\ RadNum' = Len(robs) /\ nE' = 0 /\ epc' = "eval"
  /\ UNCHANGED <<eerr, numTheta, numPhi, dtheta, dphi, theta, phi, robs, rays,
                 Erad, radiation, electron, frame>>

\* lines 178-189: one round of the loop over the points: the row of Nsteps
\* field values of robs[n], and its arrow
EvalPoint ==
  /\ UNCHANGED <<pvars, ptable, numThetaExp>>
  /\ epc = "eval" /\ nE < RadNum
  /\ LET r == robs[nE + 1]
         table == Append(Erad, RowStart(Erad) \o Efields(r))
     IN /\ Erad' = table
        /\ radiation' = Append(radiation, Arrow(r, table[nE + 1][1]))
  /\ nE' = nE + 1
  /\ UNCHANGED <<epc, eerr, numTheta, numPhi, dtheta, dphi, theta, phi, robs, rays,
                 RadNum, electron, frame>>

\* lines 191-193: the sphere at rsource[0]; the animation loop starts at i = 1
EvalExit ==
  /\ UNCHANGED <<pvars, ptable, numThetaExp>>
  /\ epc = "eval" /\ nE = RadNum
  /\ electron' = 0 /\ frame' = 1 /\ epc' = "anim"
  /\ UNCHANGED <<eerr, numTheta, numPhi, dtheta, dphi, theta, phi, robs, rays,
                 RadNum, nE, Erad, radiation>>

\* lines 194-199: one frame
AnimFrame ==
  /\ UNCHANGED <<pvars, ptable, numThetaExp>>
  /\ epc = "anim" /\ frame < NstepsErad
  /\ electron' = frame
  /\ radiation' = SetAxes(radiation, Erad, frame)
  /\ frame' = frame + 1
  /\ UNCHANGED <<epc, eerr, numTheta, numPhi, dtheta, dphi, theta, phi, robs, rays,
                 RadNum, nE, Erad>>

\* line 200: return print("Animation Complete!")
EradReturn ==
  /\ UNCHANGED <<pvars, ptable, numThetaExp>>
  /\ epc = "anim" /\ frame = NstepsErad
  /\ epc' = "done"
  /\ UNCHANGED <<eerr, numTheta, numPhi, dtheta, dphi, theta, phi, robs, rays,
                 RadNum, nE, Erad, radiation, electron, frame>>

EradBody ==
  \/ ThetaEnter
  \/ PhiRound
  \/ PhiExit
  \/ ThetaExit
  \/ EvalPoint
  \/ EvalExit
  \/ AnimFrame
  \/ EradReturn

NextErad ==
  \/ \E nT \in -1..MaxNumTheta, nP \in -1..MaxNumPhi : EradCall(nT, nP)
  \/ EradBody

NextBig ==
  \/ NextErad
  \/ \E e \in BigExps, nP \in 1..MaxNumPhi : EradCallPow2(e, nP)

\* lines 183-185 for one pair (n, i) = (p - 1, i), taken out of the order of
\* the loops of lines 178-186: the entry is computed from robs[n] and t[i]
ParEval(p, i) ==
  /\ epc = "done" /\ p <= RadNum
  /\ <<p, i>> \notin DOMAIN ptable
  /\ ptable' = ptable @@ (<<p, i>> :> Efield(robs[p], i))
  /\ UNCHANGED <<pvars, numThetaExp, epc, eerr, numTheta, numPhi, dtheta, dphi, theta, phi,
                 robs, rays, RadNum, nE, Erad, radiation, electron, frame>>

ParPairs == (1..ParPoints) \X (0..(NstepsErad - 1))

NextPar ==
  \/ \E nT \in 1..MaxParCount, nP \in 1..MaxParCount : EradCall(nT, nP)
  \/ EradBody
  \/ \E pr \in ParPairs : ParEval(pr[1], pr[2])

\* ------------------------------------------------------------------------
\* Double_Pendulum_Project.ipynb: dpendulum, ode.RK4, pcalc, the scenario cells
\* ------------------------------------------------------------------------

\* dpendulum(dep, t): L1, L2, m1, m2 are not parameters: they are read from
\* the notebook's globals at the time of the call; t is not used
dpendulum(dep, tt) ==
  IF IsKnown(dep)
    THEN LET q1 == dep.comps[1].qt
             w1 == dep.comps[2].num
             q2 == dep.comps[3].qt
             w2 == dep.comps[4].num
             \* 5*A1, A2, A3 and 5*B1, B2 of the source
             A1x5 == -G5 * (2 * m1 + m2) * SinQT(q1) - m2 * G5 * SinQT(q1 - 2 * q2)
             A2 == -2 * SinQT(q1 - q2) * m2
                     * ((w2 * w2) * L2 + (w1 * w1) * L1 * CosQT(q1 - q2))
             A3 == L1 * (2 * m1 + m2 - m2 * CosQT(2 * q1 - 2 * q2))
             B1x5 == 2 * SinQT(q1 - q2)
                       * (5 * (w1 * w1) * L1 * (m1 + m2) + G5 * (m1 + m2) * CosQT(q1)
                          + 5 * (w2 * w2) * L2 * m2 * CosQT(q1 - q2))
             B2 == L2 * (2 * m1 + m2 - m2 * CosQT(2 * q1 - 2 * q2))
         IN Known(dep.comps[2], Rat(A1x5 + 5 * A2, 5 * A3),
                  dep.comps[4], Rat(B1x5, 5 * B2))
    ELSE [f |-> "dpendulum", dep |-> dep, env |-> <<L1, m1, L2, m2>>]

\* ode.RK4(dpendulum, data, t, h): the classical four-stage step.  k1 is
\* dpendulum(state, t); k2, k3, k4 are dpendulum at states built from state, h
\* and the earlier stages, so the result is determined by state, t, h, k1 and
\* the globals the later stages read.
RK4(state, tt, hh) ==
  [state |-> state, t |-> tt, h |-> hh, k1 |-> dpendulum(state, tt),
   env |-> <<L1, m1, L2, m2>>]

\* the dpendulum call of stage 1, recorded when its state is known
StageOneCalls(state, tt) ==
  IF IsKnown(state)
    THEN {[dep |-> state, t |-> tt, deriv |-> dpendulum(state, tt)]}
    ELSE {}

InitPend ==
  /\ L1 = 0 /\ L2 = 0 /\ m1 = 0 /\ m2 = 0
  /\ th1 = <<>> /\ om1 = <<>> /\ th2 = <<>> /\ om2 = <<>> /\ time = <<>>
  /\ ppc = "idle" /\ perr = "none" /\ args = <<0, 0, 0, 0>>
  /\ Nsteps = 1 /\ n = 0 /\ t = FZero /\ data = InitialData
  /\ tarr = <<>> /\ theta1arr = <<>> /\ omega1arr = <<>>
  /\ theta2arr = <<>> /\ omega2arr = <<>>
  /\ writes = <<>> /\ rk4calls = <<>> /\ dcalls = {}
  /\ shown = [kind |-> "none"]

\* lines 215-220 (and the three cells like it): the globals are assigned and
\* pcalc(L1,m1,L2,m2) is entered; lines 109-141: its locals, the arrays of
\* zeros and their entries 0.  ns stands for int(10/h).
ScenarioCell(k, ns) ==
  /\ UNCHANGED evars
  /\ ppc \in {"idle", "returned"}
  /\ L1' = Scenarios[k].L1 /\ L2' = Scenarios[k].L2
  /\ m1' = Scenarios[k].m1 /\ m2' = Scenarios[k].m2
  /\ args' = <<L1', m1', L2', m2'>>
  /\ data' = InitialData
  /\ t' = FZero
  /\ Nsteps' = ns
  /\ tarr' = [Zeros(ns, FZero) EXCEPT ![0] = FZero]
  /\ theta1arr' = [Zeros(ns, ZeroNum) EXCEPT ![0] = Item(InitialData, 0)]
  /\ theta2arr' = [Zeros(ns, ZeroNum) EXCEPT ![0] = Item(InitialData, 2)]
  /\ omega1arr' = [Zeros(ns, ZeroNum) EXCEPT ![0] = Item(InitialData, 1)]
  /\ omega2arr' = [Zeros(ns, ZeroNum) EXCEPT ![0] = Item(InitialData, 3)]
  /\ writes' = <<0>> /\ rk4calls' = <<>>
  /\ n' = FirstIndex
  /\ ppc' = "loop" /\ perr' = "none"
  /\ shown' = [kind |-> "none"]
  /\ UNCHANGED <<th1, om1, th2, om2, time, dcalls>>

\* lines 141-151: one round of the time evolution loop
PcalcStep ==
  /\ UNCHANGED evars
  /\ ppc = "loop" /\ InRange(n, Nsteps)
  /\ LET next == RK4(data, RK4Time(t), H)
         tn   == NextTime(t)
     IN /\ data' = next
        /\ t' = tn
        /\ rk4calls' = Append(rk4calls, [n |-> n, state |-> data, t |-> RK4Time(t), h |-> H])
        /\ dcalls' = dcalls \cup StageOneCalls(data, RK4Time(t))
        /\ IF n \in DOMAIN tarr
             THEN /\ tarr' = SetItem(tarr, n, tn)
                  /\ theta1arr' = SetItem(theta1arr, n, Item(next, 0))
                  /\ omega1arr' = SetItem(omega1arr, n, Item(next, 1))
                  /\ theta2arr' = SetItem(theta2arr, n, Item(next, 2))
                  /\ omega2arr' = SetItem(omega2arr, n, Item(next, 3))
                  /\ writes' = Append(writes, n)
                  /\ n' = n + 1
                  /\ UNCHANGED <<ppc, perr>>
             ELSE /\ ppc' = "error" /\ perr' = "IndexError"
                  /\ UNCHANGED <<tarr, theta1arr, omega1arr, theta2arr, omega2arr,
                                 writes, n>>
  /\ UNCHANGED <<L1, L2, m1, m2, th1, om1, th2, om2, time, args, Nsteps, shown>>

\* lines 141, 153 and 220: the range is exhausted, pcalc returns the five
\* arrays and the cell assigns them to th1, om1, th2, om2, time
PcalcReturn ==
  /\ UNCHANGED evars
  /\ ppc = "loop" /\ ~InRange(n, Nsteps)
  /\ th1' = theta1arr /\ om1' = omega1arr
  /\ th2' = theta2arr /\ om2' = omega2arr
  /\ time' = tarr
  /\ ppc' = "returned"
  /\ UNCHANGED <<L1, L2, m1, m2, perr, args, Nsteps, n, t, data, tarr, theta1arr,
                 omega1arr, theta2arr, omega2arr, writes, rk4calls, dcalls, shown>>

\* faulty variant of the animation's reads: the values of the first scenario
AnimReadsFirst ==
  [L1 |-> Scenarios[1].L1, L2 |-> Scenarios[1].L2,
   m1 |-> Scenarios[1].m1, m2 |-> Scenarios[1].m2]

\* lines 254 and 173-184: the call passes the globals m1, m2 and the body
\* reads the globals L1, L2
AnimReads == [L1 |-> L1, L2 |-> L2, m1 |-> m1, m2 |-> m2]

\* lines 254, 309, 364, 419 and 169-199: an animation cell, run while no other
\* cell is running.  Before any scenario cell th1 is unbound (NameError).
AnimationCell ==
  /\ UNCHANGED evars
  /\ ppc \in {"idle", "returned"}
  /\ IF ppc = "idle"
       THEN shown' = [kind |-> "NameError"]
       ELSE shown' = [kind |-> "shown", p1 |-> th1, p2 |-> th2, reads |-> AnimReads]
  /\ UNCHANGED <<L1, L2, m1, m2, th1, om1, th2, om2, time, ppc, perr, args,
                 Nsteps, n, t, data, tarr, theta1arr, omega1arr, theta2arr,
                 omega2arr, writes, rk4calls, dcalls>>

NextPend ==
  \/ \E k \in 1..Len(Scenarios), ns \in 1..MaxNsteps : ScenarioCell(k, ns)
  \/ PcalcStep
  \/ PcalcReturn
  \/ AnimationCell

Init == InitErad /\ InitPend

SpecErad == Init /\ [][NextErad]_vars

SpecPend == Init /\ [][NextPend]_vars

SpecPar == Init /\ [][NextPar]_vars

SpecBig == Init /\ [][NextBig]_vars

\* ------------------------------------------------------------------------
\* Properties of Erad
\* ------------------------------------------------------------------------

GridDone == epc \in {"eval", "anim", "done"}

ValidCounts == numTheta >= 1 /\ numPhi >= 1

\* C1: every field entry Erad[p][i] is evaluated at the retarded source time
\* t_i - |r_p|/c: never later than t_i, and for two points of one ray the
\* farther one uses a source time earlier by exactly (|p2| - |p1|)/c.
C1_RetardedSourceTime ==
  \A p \in 1..Len(Erad) : \A i \in 0..(NstepsErad - 1) :
    LET st == Erad[p][i + 1].srcTime
    IN /\ st = SourceTime(i, -Mag(robs[p]))
       /\ ~TimeLess(SourceTime(i, 0), st)
       /\ \A p1 \in 1..Len(Erad) :
            ( /\ robs[p1].theta = robs[p].theta /\ robs[p1].phi = robs[p].phi
              /\ Mag(robs[p1]) < Mag(robs[p]) )
            => /\ TimeLess(st, Erad[p1][i + 1].srcTime)
               /\ Erad[p1][i + 1].srcTime.travel - st.travel
                    = Mag(robs[p]) - Mag(robs[p1])

\* C2: for numTheta >= 1 and numPhi >= 1 grid generation appends exactly
\* numTheta*numPhi*N points: numTheta theta rounds of numPhi phi rounds each.
C2_GridCount ==
  (GridDone /\ ValidCounts) =>
    /\ Len(robs) = numTheta * numPhi * N
    /\ Len(rays) = numTheta
    /\ \A k \in 1..Len(rays) : rays[k] = numPhi

\* C5: for numTheta <= 0 or numPhi <= 0 Erad never generates an observation
\* point, never evaluates a field value and never gets past grid generation.
C5_RejectsNonPositive ==
  (numTheta <= 0 \/ numPhi <= 0) =>
    /\ robs = <<>> /\ Erad = <<>>
    /\ ~GridDone

\* theta and phi of the i-th round: the running sums of lines 155-156, 169-170
RECURSIVE ThetaAt(_, _)
ThetaAt(i, d) == IF i = 0 THEN FNeg(HalfPi) ELSE FAdd(ThetaAt(i - 1, d), d)

RECURSIVE PhiAt(_, _)
PhiAt(i, d) == IF i = 0 THEN FZero ELSE FAdd(PhiAt(i - 1, d), d)

\* C8: the point at list index (iTheta*numPhi + iPhi)*N + k lies on the ray
\* (theta_iTheta, phi_iPhi) at radius radialStart + k*radialStep.
C8_GridOrder ==
  (GridDone /\ ValidCounts) =>
    \A iT \in 0..(numTheta - 1) : \A iP \in 0..(numPhi - 1) : \A k \in 0..(N - 1) :
      LET idx == (iT * numPhi + iP) * N + k + 1
      IN /\ idx <= Len(robs)
         /\ robs[idx] = ObsPoint(ThetaAt(iT, dtheta), PhiAt(iP, dphi),
                                 RadialStart + k * RadialStep)

Indices(arr) == DOMAIN arr

\* the running sum of k increments of h, as the floats give it
RECURSIVE TimeAt(_)
TimeAt(k) == IF k = 0 THEN FZero ELSE FAdd(TimeAt(k - 1), H)

\* k*h as a real number
RECURSIVE ExactTimes(_)
ExactTimes(k) == IF k = 0 THEN FZero ELSE ExactAdd(ExactTimes(k - 1), H)

\* b - a as a real number
ExactDiff(b, a) == ExactAdd(b, FNeg(a))

\* | (b - a) - h | is at most half a unit in the last place of b
StepWithinHalfUlp(a, b) ==
  LET d  == ExactDiff(ExactDiff(b, a), H)
      sh == RoundShift(b.mag)
  IN MagCmp(MagAdd(d.mag, d.mag), MagUnit(2^(IF sh > 0 THEN sh ELSE 0))) <= 0

\* C3: pcalc returns five arrays of exactly Nsteps entries each, index 0
\* holding the initial state (pi/2, 0, 0, 0) at time 0 and every index
\* 1..Nsteps-1 written by the loop, once, none out of range.
C3_ArraysComplete ==
  ppc = "returned" =>
    /\ perr = "none"
    /\ Indices(th1) = 0..(Nsteps - 1) /\ Indices(om1) = 0..(Nsteps - 1)
    /\ Indices(th2) = 0..(Nsteps - 1) /\ Indices(om2) = 0..(Nsteps - 1)
    /\ Indices(time) = 0..(Nsteps - 1)
    /\ th1[0] = QuarterTurns(1) /\ om1[0] = ZeroNum
    /\ th2[0] = QuarterTurns(0) /\ om2[0] = ZeroNum
    /\ time[0] = FZero
    /\ writes = [i \in 1..Nsteps |-> i - 1]
    /\ \A k \in 1..(Nsteps - 1) :
         LET call == rk4calls[k]
             res  == RK4(call.state, call.t, call.h)
         IN /\ th1[k] = Item(res, 0) /\ om1[k] = Item(res, 1)
            /\ th2[k] = Item(res, 2) /\ om2[k] = Item(res, 3)
            /\ time[k] # FZero

C3_Witness == ppc = "returned" /\ Nsteps = 4 /\ Len(writes) = 4

\* C4 as stated: the time at index k is exactly k*h and consecutive time
\* stamps differ by exactly h.
C4_TimeExactMultiple ==
  ppc \in {"loop", "returned"} =>
    \A k \in 1..(n - 1) :
      /\ tarr[k] = ExactTimes(k)
      /\ ExactDiff(tarr[k], tarr[k - 1]) = H

\* C4 amended: the time at index k is the floating-point running sum of k
\* increments of h; the time stamps are strictly increasing and consecutive
\* ones differ by h up to the rounding of one sum (half a unit in the last
\* place).
C4_TimeRunningSum ==
  ppc \in {"loop", "returned"} =>
    /\ tarr[0] = FZero
    /\ \A k \in 1..(n - 1) :
         /\ tarr[k] = TimeAt(k)
         /\ FLess(tarr[k - 1], tarr[k])
         /\ StepWithinHalfUlp(tarr[k - 1], tarr[k])

\* a returned run in which a sum was rounded: time[3] is not 3*h
C4_Witness ==
  /\ ppc = "returned" /\ Nsteps >= 4
  /\ time[3] # ExactTimes(3)
  /\ ExactDiff(time[3], time[2]) # H

\* C7: dpendulum is a pure function of (dep, t): two calls with the same
\* state and time return the same derivative, whatever ran between them.
C7_DpendulumPure ==
  \A c1 \in dcalls : \A c2 \in dcalls :
    (c1.dep = c2.dep /\ c1.t = c2.t) => c1.deriv = c2.deriv

\* C10: pcalc calls ode.RK4 exactly once for each index 1..Nsteps-1, in
\* order, and the loop runs through its last index: no round is skipped and
\* nothing ends the loop early.
C10_OneRK4PerIndex ==
  /\ ppc \in {"loop", "returned"} =>
       /\ Len(rk4calls) = n - 1
       /\ \A c \in 1..Len(rk4calls) : rk4calls[c].n = c
       /\ Len(writes) = n
  /\ (ppc = "loop" /\ n < Nsteps) => (InRange(n, Nsteps) /\ n \in DOMAIN tarr)
  /\ ppc = "returned" => (n = Nsteps /\ Len(rk4calls) = Nsteps - 1)

C10_Witness == ppc = "returned" /\ Nsteps = MaxNsteps /\ Len(rk4calls) = Nsteps - 1
\* C11: with Nsteps = 1 the loop of pcalc performs no integration step and
\* the trajectory returned has length 1: the initial state at time t0 = 0.
C11_SingleStep ==
  (Nsteps = 1 /\ ppc # "idle") =>
    /\ ppc # "error" /\ perr = "none"
    /\ rk4calls = <<>> /\ writes = <<0>>
    /\ ppc = "returned" =>
         /\ Indices(th1) = {0} /\ Indices(om1) = {0} /\ Indices(th2) = {0}
         /\ Indices(om2) = {0} /\ Indices(time) = {0}
         /\ th1[0] = Item(InitialData, 0) /\ om1[0] = Item(InitialData, 1)
         /\ th2[0] = Item(InitialData, 2) /\ om2[0] = Item(InitialData, 3)
         /\ time[0] = FZero

C11_Witness == Nsteps = 1 /\ ppc = "returned" /\ L1 = 8
\* C13: the recurrence is strictly sequential: the state stored at index k is
\* the RK4 step of the state stored at index k-1, called with the time stored
\* at index k-1 (the time before the increment) and the step h; the time
\* stored at index k is the incremented one.
C13_Sequential ==
  ppc \in {"loop", "returned"} =>
    \A k \in 1..Len(rk4calls) :
      LET call == rk4calls[k]
          res  == RK4(call.state, tarr[k-1], H)
      IN /\ call.n = k /\ call.h = H
         /\ call.t = tarr[k-1]
         /\ \A j \in 0..3 : Item(call.state, j) =
              <<theta1arr[k-1], omega1arr[k-1], theta2arr[k-1], omega2arr[k-1]>>[j+1]
         /\ theta1arr[k] = Item(res, 0) /\ omega1arr[k] = Item(res, 1)
         /\ theta2arr[k] = Item(res, 2) /\ omega2arr[k] = Item(res, 3)
         /\ tarr[k] = FAdd(tarr[k-1], H)
         /\ tarr[k] # call.t

C13_Witness == ppc = "returned" /\ Len(rk4calls) = 3 /\ m1 = 2

\* C14: iteration n of the loop writes index n of the arrays only; every
\* index other than n keeps the value it had.
C14_WritesOnlyIndexN ==
  [][(ppc = "loop" /\ ppc' = "loop") =>
       \A k \in Indices(tarr) \ {n} :
         /\ tarr'[k] = tarr[k]
         /\ theta1arr'[k] = theta1arr[k] /\ omega1arr'[k] = omega1arr[k]
         /\ theta2arr'[k] = theta2arr[k] /\ omega2arr'[k] = omega2arr[k]]_vars

C14_Witness == ppc = "loop" /\ writes = <<0, 1, 2, 3>> /\ Nsteps = 4
\* C15: the renderer matches field samples to points by index: one arrow per
\* observation point, arrow n at robs[n] with initial axis Erad[n][0]; the
\* animation shows the frames i = 1..Nsteps-1 in increasing order, each once,
\* setting every arrow n to Erad[n][i] and the electron to rsource[i] in the
\* same frame, and leaves the field table and robs as they are.
\* (frame is the next i of the loop; sequences here are 1-based, so the
\* Python entry Erad[n][i] is Erad[n+1][i+1].)
ArrowsMatch ==
  /\ epc = "eval" =>
       /\ Len(radiation) = nE /\ Len(Erad) = nE
       /\ \A k \in 1..nE : radiation[k] = Arrow(robs[k], Erad[k][1])
  /\ epc = "anim" =>
       /\ Len(radiation) = RadNum /\ RadNum = Len(robs)
       /\ frame \in 1..NstepsErad
       /\ electron = frame - 1
       /\ \A k \in 1..RadNum : /\ radiation[k].pos = robs[k]
                               /\ radiation[k].axis = Erad[k][frame]
                               /\ radiation[k].axis = Efield(robs[k], frame - 1)

FramesInOrder ==
  (epc = "anim" /\ epc' = "anim") =>
     /\ frame' = frame + 1 /\ electron' = frame
     /\ Erad' = Erad /\ robs' = robs
     /\ \A k \in 1..RadNum : radiation'[k] = Arrow(robs[k], Erad[k][frame + 1])

C15_RendererByIndex == []ArrowsMatch /\ [][FramesInOrder]_vars

C15_Witness ==
  /\ epc = "anim" /\ frame = NstepsErad /\ RadNum >= 2
  /\ radiation[2].axis # radiation[1].axis
  /\ radiation[1].axis # Erad[1][1]
\* C17: whatever the order in which scenario cells and animation cells are
\* run, the lengths and masses an animation reads are the values dpendulum
\* read while the trajectory th1, th2 it animates was computed.
\* (Entry k >= 1 of a trajectory is a component of an RK4 result, which
\* carries the globals its dpendulum calls read.)
C17_AnimationInSync ==
  shown.kind = "shown" =>
    LET used == <<shown.reads.L1, shown.reads.m1, shown.reads.L2, shown.reads.m2>>
    IN /\ shown.p1 = th1 /\ shown.p2 = th2
       /\ \A k \in Indices(shown.p1) \ {0} :
            /\ shown.p1[k].of.env = used
            /\ shown.p2[k].of.env = used

C17_Witness ==
  /\ shown.kind = "shown"
  /\ shown.reads.L1 = 2 /\ Indices(shown.p1) = 0..2
  /\ \E c \in dcalls : c.deriv # dpendulum(c.dep, c.t)
\* C12: every entry Erad[n][i] depends on robs[n], t[i] and the constants
\* alone: the pairs (n, i) evaluated in any order give the entries of the
\* table the sequential point-major loop built.
C12_OrderIndependent ==
  /\ \A pr \in DOMAIN ptable :
       /\ epc = "done"
       /\ ptable[pr] = Erad[pr[1]][pr[2] + 1]
  /\ epc = "done" =>
       \A p \in 1..RadNum : /\ Len(Erad[p]) = NstepsErad
                            /\ \A i \in 0..(NstepsErad - 1) :
                                 Erad[p][i + 1] = Efield(robs[p], i)

C12_Witness ==
  /\ DOMAIN ptable = ParPairs
  /\ ptable[<<1, 0>>] # ptable[<<2, 0>>]
  /\ ptable[<<1, 0>>] # ptable[<<1, 1>>]
\* C16: for every numTheta >= 1 and numPhi >= 1 the nested while loops of
\* the grid terminate: phi strictly increases in every round of the inner
\* loop and theta strictly increases in every round of the outer loop, so
\* that they reach 2*pi and pi/2 and Erad goes on to its return.
C16_LoopsAdvance ==
  [][(numTheta >= 1 /\ numPhi >= 1) =>
       /\ (epc = "phi" /\ epc' = "phi") => FLess(phi, phi')
       /\ (epc = "phi" /\ epc' = "theta") => FLess(theta, theta')]_vars
====
